---- MODULE Spec2Model ----
(***************************************************************************)
(* A model of django-activity-stream (actstream): the Action and Follow    *)
(* tables, the stream queries of ActionManager and FollowManager, the      *)
(* action signal handler, follow/unfollow, and the three variants of       *)
(* GFKQuerySet.fetch_generic_relations.                                    *)
(***************************************************************************)
EXTENDS Integers, Sequences, FiniteSets, Bags, TLC

(***************************************************************************)
(* Bounds of the model.                                                    *)
(***************************************************************************)
\* the Action and Follow tables together hold at most MaxRows rows
MaxRows == 3
\* SpecDispatch: the Action table holds at most MaxActions rows
MaxActions == 2
\* the clock reads 0..MaxTime
MaxTime == 1
\* SpecResolver: a result set holds at most MaxResultRows rows
MaxResultRows == 2

(***************************************************************************)
(* Entities.  A model instance is <<content type, pk>>; None is <<>>.      *)
(* ContentType.objects.get_for_model(e) is e[1] and e.pk is e[2].          *)
(* A stream is a sequence of rows, so the None that stream_for_user        *)
(* returns for a user who follows nothing reads as a stream of no rows.    *)
(***************************************************************************)
None == <<>>
NULL == "NULL"
Users == {<<"user", 1>>, <<"user", 2>>}
Entities == Users \cup {<<"group", 1>>}

VARIABLES
    actions,    \* the Action table: a set of rows
    follows,    \* the Follow table: a bag of rows (equal rows may repeat)
    now,        \* the clock that auto_now_add reads
    settings,   \* django.conf.settings as follow() sees it
    last,       \* the call made last and what came of it
    qs          \* the rows of the QuerySet fetch_generic_relations runs on

vars == <<actions, follows, now, settings, last, qs>>

\* rows of a set as a sequence in order_by('-timestamp') order; the store
\* leaves the order of rows of equal timestamp open
RECURSIVE OrderByTimestampDesc(_)
OrderByTimestampDesc(rows) ==
    IF rows = {} THEN <<>>
    ELSE LET first == CHOOSE r \in rows : \A o \in rows :
                          o.timestamp <= r.timestamp
         IN  <<first>> \o OrderByTimestampDesc(rows \ {first})

Range(s) == {s[i] : i \in DOMAIN s}

(***************************************************************************)
(* ActionManager (models.py 41-70)                                         *)
(***************************************************************************)
stream_for_actor(actor) ==
    OrderByTimestampDesc({r \in actions : r.actor = actor /\ r.public # FALSE})

stream_for_model_public_only(model) ==
    OrderByTimestampDesc({r \in actions : r.actor[1] = model /\ r.public # FALSE})

stream_for_model(model) ==
    OrderByTimestampDesc({r \in actions : r.actor[1] = model})

\* the QuerySet stream_for_subject returns, before it is evaluated
stream_for_subject_qs(subject) ==
    {r \in actions : r.subject = subject /\ r.public # FALSE}

stream_for_subject(subject) ==
    OrderByTimestampDesc(stream_for_subject_qs(subject))

(***************************************************************************)
(* FollowManager.stream_for_user (models.py 16-23): the OR of one QuerySet *)
(* per Follow row of the user, or None when the user follows nothing.      *)
(***************************************************************************)
follow_qs_at_or_after(follow) ==
    {r \in stream_for_subject_qs(follow.subject) : r.timestamp >= follow.started}

follow_qs(follow) ==
    {r \in stream_for_subject_qs(follow.subject) : r.timestamp > follow.started}

stream_for_user(user) ==
    LET fs == {f \in BagToSet(follows) : f.user = user}
    IN  IF fs # {}
        THEN OrderByTimestampDesc(UNION {follow_qs(f) : f \in fs})
        ELSE None

(***************************************************************************)
(* action_handler (models.py 206-238), the receiver of the action signal.  *)
(* The subject argument is <<"actor">>, <<"target">> or a model instance.  *)
(* kwargs holds the extra fields of the call (sender and signal popped).   *)
(***************************************************************************)
SubjectActor == <<"actor">>
SubjectTarget == <<"target">>

\* the rows Action.objects.get(**kw) selects: only the fields named in kw
\* take part in the lookup
Lookup(table, kw) == {r \in table : \A f \in DOMAIN kw : r[f] = kw[f]}

\* the row Action.objects.create(**kw) inserts: fields not in kw take the
\* column's default, timestamp is auto_now_add.  The primary key is left
\* out: a row is inserted only when no row agrees with it on the fields of
\* kw, so the rows of the table differ in their other columns.
CreateAction(kw, clock) ==
    [actor       |-> kw.actor,
     verb        |-> kw.verb,
     description |-> IF "description" \in DOMAIN kw THEN kw.description ELSE NULL,
     subject     |-> IF "subject" \in DOMAIN kw THEN kw.subject ELSE None,
     target      |-> IF "target" \in DOMAIN kw THEN kw.target ELSE None,
     public      |-> IF "public" \in DOMAIN kw THEN kw.public ELSE TRUE,
     timestamp   |-> clock]

\* Action.objects.create(**kw) without the lookup
create_always(table, kw, clock) ==
    [outcome |-> "created", actions |-> table \cup {CreateAction(kw, clock)}]

\* Action.objects.get_or_create(**kw): [outcome, actions]
get_or_create(table, kw, clock) ==
    LET found == Lookup(table, kw)
    IN  IF Cardinality(found) = 1
        THEN [outcome |-> "found", actions |-> table]
        ELSE IF found = {}
        THEN [outcome |-> "created",
              actions |-> table \cup {CreateAction(kw, clock)}]
        ELSE [outcome |-> "MultipleObjectsReturned", actions |-> table]

\* lines 209-214
kw_actor(sender, verb, public) ==
    [f \in {"actor", "verb", "public"} |->
        CASE f = "actor" -> sender
          [] f = "verb" -> verb
          [] f = "public" -> public]

\* the subject is the target whenever a target is given
kw_subject_target_first(sender, target, subject) ==
    [f \in {"subject"} |->
        IF subject \in {SubjectActor, SubjectTarget}
        THEN (IF target # None THEN target ELSE sender)
        ELSE subject]

\* lines 215-232; the caller has checked that target is not None when the
\* subject is the target
kw_subject(sender, target, subject) ==
    [f \in {"subject"} |->
        IF subject = SubjectActor THEN sender
        ELSE IF subject = SubjectTarget THEN target
        ELSE subject]

\* lines 234-236
kw_target(target) ==
    IF target # None THEN [f \in {"target"} |-> target] ELSE <<>>

\* lines 206-238: [outcome, kw, actions]; kw.update(kwargs) lets the extra
\* fields win
action_handler(table, clock, sender, verb, target, public, subject, kwargs) ==
    IF subject = SubjectTarget /\ target = None
    THEN [outcome |-> "AttributeError",
          kw      |-> kw_actor(sender, verb, public),
          actions |-> table]
    ELSE LET kw == kwargs @@ kw_target(target)
                     @@ kw_subject(sender, target, subject)
                     @@ kw_actor(sender, verb, public)
             r  == get_or_create(table, kw, clock)
         IN  [outcome |-> r.outcome, kw |-> kw, actions |-> r.actions]

Raised(outcome) == outcome \in {"AttributeError", "MultipleObjectsReturned"}

(***************************************************************************)
(* follow and unfollow (models.py 150-187)                                 *)
(***************************************************************************)
\* one matching row only, as Follow.objects.filter(...)[0] would select
FirstFollowOf(table, user, subject) ==
    [f \in {x \in BagToSet(table) : x.user = user /\ x.subject = subject}
        |-> 1]

\* Follow.objects.filter(user=..., object_id=..., content_type=...)
FollowsOf(table, user, subject) ==
    [f \in {x \in BagToSet(table) : x.user = user /\ x.subject = subject}
        |-> table[f]]

\* Follow.objects.create(...): started is auto_now_add.  The primary key is
\* left out; the table is a bag, so equal rows are counted
CreateFollow(user, subject, clock) ==
    [user |-> user, subject |-> subject, started |-> clock]

\* settings.get('ACTIVITY_HIDE_FOLLOWING'): django.conf.settings has no get
\* method, a settings object that is a mapping answers None for a missing key
settings_get(conf) ==
    IF conf.kind = "LazySettings"
    THEN [outcome |-> "AttributeError", value |-> FALSE]
    ELSE [outcome |-> "ok", value |-> conf.ACTIVITY_HIDE_FOLLOWING]

\* follow(user, subject): [outcome, sent, actions, follows]
follow(acts, fols, conf, clock, user, subject) ==
    LET hide == settings_get(conf)
        sent == IF hide.outcome = "ok" /\ ~hide.value
                THEN action_handler(acts, clock, user, "started following",
                                    subject, TRUE, SubjectActor, <<>>)
                ELSE [outcome |-> "not sent", kw |-> <<>>, actions |-> acts]
    IN  IF Raised(hide.outcome)
        THEN [outcome |-> hide.outcome, sent |-> "not sent",
              actions |-> acts, follows |-> fols]
        ELSE IF Raised(sent.outcome)
        THEN [outcome |-> sent.outcome, sent |-> sent.outcome,
              actions |-> sent.actions, follows |-> fols]
        ELSE [outcome |-> "ok", sent |-> sent.outcome,
              actions |-> sent.actions,
              follows |-> fols (+) SetToBag({CreateFollow(user, subject, clock)})]

\* unfollow(user, subject, send_action): the rows are deleted before the
\* signal is sent
unfollow(acts, fols, clock, user, subject, send_action) ==
    LET left == fols (-) FollowsOf(fols, user, subject)
        sent == IF send_action
                THEN action_handler(acts, clock, user, "stopped following",
                                    subject, TRUE, SubjectActor, <<>>)
                ELSE [outcome |-> "not sent", kw |-> <<>>, actions |-> acts]
    IN  [outcome |-> IF Raised(sent.outcome) THEN sent.outcome ELSE "ok",
         sent    |-> sent.outcome,
         deleted |-> BagCardinality(FollowsOf(fols, user, subject)),
         actions |-> sent.actions,
         follows |-> left]

(***************************************************************************)
(* GFKQuerySet.fetch_generic_relations, in its three variants              *)
(* (managers.py, gfk.py, genericforeignkey.py), on rows of the Action      *)
(* model.  A row holds the column pair of each generic foreign key as a    *)
(* reference <<content type, object id>>, or None when both columns are    *)
(* NULL.  An item is a row instance: the row plus, per generic foreign     *)
(* key, the value cached on the instance: Lazy while nothing is attached,  *)
(* the object once setattr attached it, None once setattr cleared it.      *)
(***************************************************************************)
\* the virtual fields of Action, in declaration order (models.py 97-110)
gfk_fields == <<"actor", "subject", "target">>
\* ct_field and fk_field are both declared null=True, blank=True
Nullable(gfk) == gfk \in {"subject", "target"}

\* the objects the store holds; <<"user", 2>> has been deleted
Stored == {<<"user", 1>>, <<"group", 1>>}

Lazy == <<"lazy">>

\* iterating the QuerySet: one fresh instance per row
Items(rows) ==
    [i \in DOMAIN rows |->
        [row |-> rows[i], cache |-> [g \in Range(gfk_fields) |-> Lazy]]]

\* every (item, field) of a result set, the pairs the loops walk
Slots(items) == (DOMAIN items) \X Range(gfk_fields)

\* model_class.objects.filter(pk__in=ids): the stored objects of the type
Filter(ct, ids) == {o \in Stored : o[1] = ct /\ o[2] \in ids}

(***************************************************************************)
(* managers.py 35-106                                                      *)
(***************************************************************************)
\* lines 47-56: ct_map, content type id -> the object ids it is keyed by
\* (the values (gfk.name, item.id) are unpacked and not used).  Null
\* references are recorded too, under the key None, here NULL.
managers_ct_map(items) ==
    LET refs == {items[sl[1]].row[sl[2]] : sl \in Slots(items)}
        cts  == {IF r = None THEN NULL ELSE r[1] : r \in refs}
    IN  [ct \in cts |-> {r[2] : r \in {x \in refs \ {None} : x[1] = ct}}]

\* lines 63-73: data_map, (ct_id, o.id) -> o, one get_for_id and one bulk
\* query per content type id that is not None
managers_data_map(ct_map) ==
    LET keys == UNION {Filter(ct, ct_map[ct]) : ct \in DOMAIN ct_map \ {NULL}}
    IN  [k \in keys |-> k]

\* lines 77-93, one (item, field): the value cached on the item afterwards
managers_attach(item, gfk, data_map) ==
    LET ref == item.row[gfk]
    IN  IF ref = None THEN item.cache[gfk]
        ELSE IF ref \in DOMAIN data_map THEN data_map[ref]
        ELSE IF Nullable(gfk) THEN None
        ELSE item.cache[gfk]

\* lines 85-93: the references recorded in missing_records
managers_missing(items, data_map) ==
    {<<sl[2], items[sl[1]].row[sl[2]]>> : sl \in
        {x \in Slots(items) : /\ items[x[1]].row[x[2]] # None
                              /\ items[x[1]].row[x[2]] \notin DOMAIN data_map
                              /\ ~Nullable(x[2])}}

\* lines 99-104: qs &= qs.exclude(<ct_field>__pk=ct, <fk_field>__in=objs)
\* makes a new QuerySet; evaluating it reads the rows again, as fresh
\* instances
Exclude(rows, missing) ==
    LET Keep(row) == \A m \in missing : row[m[1]] # m[2]
        RECURSIVE Sel(_)
        Sel(i) == IF i > Len(rows) THEN <<>>
                  ELSE (IF Keep(rows[i]) THEN <<rows[i]>> ELSE <<>>) \o Sel(i + 1)
    IN  Sel(1)

managers_result(rows, items, missing) ==
    IF missing = {} THEN items ELSE Items(Exclude(rows, missing))

managers_fetch_generic_relations(rows) ==
    LET items    == Items(rows)
        ct_map   == managers_ct_map(items)
        data_map == managers_data_map(ct_map)
        attached == [i \in DOMAIN items |->
                        [row   |-> [f \in DOMAIN items[i].row |->
                                      IF /\ f \in Range(gfk_fields)
                                         /\ managers_attach(items[i], f, data_map) = None
                                      THEN None ELSE items[i].row[f]],
                         cache |-> [g \in Range(gfk_fields) |->
                                      managers_attach(items[i], g, data_map)]]]
        missing  == managers_missing(items, data_map)
    IN  [outcome        |-> "ok",
         items          |-> managers_result(rows, attached, missing),
         get_for_id     |-> Cardinality(DOMAIN ct_map \ {NULL}),
         bulk_fetches   |-> Cardinality(DOMAIN ct_map \ {NULL}),
         in_bulk        |-> 0]

(***************************************************************************)
(* gfk.py 37-86                                                            *)
(***************************************************************************)
FETCH_RELATIONS == TRUE     \* line 10, the default
USE_PREFETCH == FALSE       \* line 9, the default

\* smart_unicode(pk): the primary key as a unicode string
smart_unicode(pk) == <<"unicode", ToString(pk)>>
\* a Python tuple (a, b)
PyTuple(a, b) == <<"tuple", a, b>>

\* lines 53-60: ct_map, content type id -> the smart_unicode keys; fields
\* whose content type or object id is None are skipped
gfk_ct_map(items) ==
    LET refs == {items[sl[1]].row[sl[2]] : sl \in Slots(items)} \ {None}
    IN  [ct \in {r[1] : r \in refs} |->
            {smart_unicode(r[2]) : r \in {x \in refs : x[1] = ct}}]

\* line 62: ContentType.objects.in_bulk(ids) returns {} without a query
\* when ids is empty
in_bulk_queries(ids) == IF ids = {} THEN 0 ELSE 1

RECURSIVE SumOver(_, _)
SumOver(f, keys) ==
    IF keys = {} THEN 0
    ELSE LET k == CHOOSE x \in keys : TRUE
         IN  Cardinality(f[k]) + SumOver(f, keys \ {k})

\* one query per referenced object instead of one per content type
gfk_bulk_queries_per_object(ct_map) ==
    SumOver(ct_map, DOMAIN ct_map)

\* lines 64-70: one objects.filter(pk__in=...) query per content type id
\* of ct_map that is true
gfk_bulk_queries(ct_map) ==
    Cardinality({ct \in DOMAIN ct_map : ct # NULL})

\* lines 64-72: data_map, (ct_id, smart_unicode(o.pk)) -> o
gfk_data_map(ct_map) ==
    LET found == UNION {{o \in Stored : o[1] = ct /\ smart_unicode(o[2]) \in ct_map[ct]}
                        : ct \in DOMAIN ct_map}
    IN  [k \in {PyTuple(o[1], smart_unicode(o[2])) : o \in found} |->
            CHOOSE o \in found : PyTuple(o[1], smart_unicode(o[2])) = k]

\* lines 74-84, one (item, field): data_map is looked up under
\* smart_unicode(fk) alone; "If the value isn't found, we leave it as is"
gfk_attach(item, gfk, data_map) ==
    LET ref == item.row[gfk]
        key == IF ref = None THEN None ELSE smart_unicode(ref[2])
    IN  IF ref # None /\ key \in DOMAIN data_map
        THEN data_map[key]
        ELSE item.cache[gfk]

gfk_fetch_generic_relations(rows) ==
    LET items    == Items(rows)
        ct_map   == gfk_ct_map(items)
        data_map == gfk_data_map(ct_map)
    IN  IF ~FETCH_RELATIONS \/ USE_PREFETCH
        THEN [outcome |-> "ok", items |-> items, get_for_id |-> 0,
              bulk_fetches |-> 0, in_bulk |-> 0]
        ELSE [outcome        |-> "ok",
              items          |-> [i \in DOMAIN items |->
                                    [row   |-> items[i].row,
                                     cache |-> [g \in Range(gfk_fields) |->
                                                 gfk_attach(items[i], g, data_map)]]],
              get_for_id     |-> 0,
              bulk_fetches   |-> gfk_bulk_queries(ct_map),
              in_bulk        |-> in_bulk_queries(DOMAIN ct_map)]

(***************************************************************************)
(* genericforeignkey.py 34-72: the loops of managers.py, but line 70 reads *)
(* data_map[...] outside any try                                           *)
(***************************************************************************)
genericforeignkey_fetch_generic_relations(rows) ==
    LET items    == Items(rows)
        ct_map   == managers_ct_map(items)
        data_map == managers_data_map(ct_map)
        absent   == {sl \in Slots(items) : /\ items[sl[1]].row[sl[2]] # None
                                           /\ items[sl[1]].row[sl[2]] \notin DOMAIN data_map}
    IN  [outcome        |-> IF absent = {} THEN "ok" ELSE "KeyError",
         items          |-> IF absent # {} THEN <<>>
                            ELSE [i \in DOMAIN items |->
                                    [row   |-> items[i].row,
                                     cache |-> [g \in Range(gfk_fields) |->
                                                 IF items[i].row[g] = None
                                                 THEN items[i].cache[g]
                                                 ELSE data_map[items[i].row[g]]]]],
         get_for_id     |-> Cardinality(DOMAIN ct_map \ {NULL}),
         bulk_fetches   |-> Cardinality(DOMAIN ct_map \ {NULL}),
         in_bulk        |-> 0]

(***************************************************************************)
(* The calls the environment makes.  Spec is the store under follow,       *)
(* unfollow and the actions of the followed subjects; SpecDispatch is the  *)
(* store under action.send with every argument of the handler varied.      *)
(***************************************************************************)
\* Spec: who follows, who is followed, who acts
Watchers == Users
Followed == {<<"group", 1>>}
Actors == {<<"group", 1>>}
\* SpecDispatch: the arguments of action.send
Senders == {<<"user", 1>>}
Targets == {None, <<"user", 2>>}
Subjects == {SubjectActor, SubjectTarget}
ExtraFields == {<<>>, [f \in {"description"} |-> "d"]}
Settings == {[kind |-> "mapping", ACTIVITY_HIDE_FOLLOWING |-> FALSE],
             [kind |-> "mapping", ACTIVITY_HIDE_FOLLOWING |-> TRUE],
             [kind |-> "LazySettings"]}

RowCount(acts, fols) == Cardinality(acts) + BagCardinality(fols)

Init ==
    /\ actions = {}
    /\ follows = EmptyBag
    /\ now = 0
    /\ settings \in Settings
    /\ last = [op |-> "init"]
    /\ qs = <<>>

\* time passes between two calls
Tick ==
    /\ now < MaxTime
    /\ now' = now + 1
    /\ last' = [op |-> "tick"]
    /\ UNCHANGED <<actions, follows, settings, qs>>

\* action.send(sender, verb=..., target=..., public=..., subject=..., **kwargs)
Dispatch(senders, targets, subjects, extras, bound) ==
    \E sender \in senders, target \in targets, public \in BOOLEAN,
       subject \in subjects, kwargs \in extras :
        LET r == action_handler(actions, now, sender, "commented on", target,
                                public, subject, kwargs)
        IN  /\ RowCount(r.actions, follows) <= bound
            /\ actions' = r.actions
            /\ last' = [op |-> "action_handler", kw |-> r.kw,
                        subject |-> subject, outcome |-> r.outcome]
            /\ UNCHANGED <<follows, now, settings, qs>>

\* a followed subject acts
Act == Dispatch(Actors, {None}, {SubjectActor}, ExtraFields, MaxRows)

DoFollow ==
    \E user \in Watchers, subject \in Followed :
        LET r == follow(actions, follows, settings, now, user, subject)
        IN  /\ RowCount(r.actions, r.follows) <= MaxRows
            /\ actions' = r.actions
            /\ follows' = r.follows
            /\ last' = [op |-> "follow", user |-> user, subject |-> subject,
                        outcome |-> r.outcome, sent |-> r.sent]
            /\ UNCHANGED <<now, settings, qs>>

DoUnfollow ==
    \E user \in Watchers, subject \in Followed, send_action \in BOOLEAN :
        LET r == unfollow(actions, follows, now, user, subject, send_action)
        IN  /\ RowCount(r.actions, r.follows) <= MaxRows
            /\ actions' = r.actions
            /\ follows' = r.follows
            /\ last' = [op |-> "unfollow", user |-> user, subject |-> subject,
                        send_action |-> send_action, outcome |-> r.outcome,
                        sent |-> r.sent, deleted |-> r.deleted]
            /\ UNCHANGED <<now, settings, qs>>

Next == Tick \/ Act \/ DoFollow \/ DoUnfollow

Spec == Init /\ [][Next]_vars

\* SpecResolver: the result sets fetch_generic_relations is run on
RowValues == [actor   : {<<"user", 1>>, <<"user", 2>>, <<"group", 1>>},
              subject : {None, <<"user", 2>>},
              target  : {None, <<"group", 1>>, <<"user", 2>>}]
WithIds(rows) ==
    [i \in DOMAIN rows |->
        [id |-> i, actor |-> rows[i].actor, subject |-> rows[i].subject,
         target |-> rows[i].target]]
ResultSets ==
    {WithIds(rows) : rows \in UNION {[1..n -> RowValues] : n \in 0..MaxResultRows}}

Send == Dispatch(Senders, Targets, Subjects, ExtraFields, MaxActions)

NextDispatch == Tick \/ Send

SpecDispatch == Init /\ [][NextDispatch]_vars
InitResolver ==
    /\ actions = {}
    /\ follows = EmptyBag
    /\ now = 0
    /\ settings = [kind |-> "LazySettings"]
    /\ last = [op |-> "init"]
    /\ qs \in ResultSets

Resolved(variant, r) ==
    /\ last' = [op |-> variant, outcome |-> r.outcome, items |-> r.items,
                get_for_id |-> r.get_for_id, bulk_fetches |-> r.bulk_fetches,
                in_bulk |-> r.in_bulk]
    /\ UNCHANGED <<actions, follows, now, settings, qs>>

ResolveManagers == Resolved("managers", managers_fetch_generic_relations(qs))

ResolveGfk == Resolved("gfk", gfk_fetch_generic_relations(qs))

ResolveGenericforeignkey ==
    Resolved("genericforeignkey", genericforeignkey_fetch_generic_relations(qs))

NextResolver == ResolveManagers \/ ResolveGfk \/ ResolveGenericforeignkey

SpecResolver == InitResolver /\ [][NextResolver]_vars

(***************************************************************************)
(* Properties of the store under action.send (SpecDispatch).               *)
(***************************************************************************)
Dispatched(l) == l.op = "action_handler" /\ l.outcome # "AttributeError"

\* C1: after action.send with a candidate (actor, verb, subject, target,
\* visible, extra fields), however often it has been sent before, exactly
\* one persisted Action row matches the candidate.
C1_DispatchIdempotent ==
    Dispatched(last) => Cardinality(Lookup(actions, last.kw)) = 1

\* C1, the part of it that holds: sending the candidate of the call before
\* again inserts no row.
C1_SecondDispatchCreatesNothing ==
    [][(Dispatched(last) /\ Dispatched(last') /\ last'.kw = last.kw)
        => actions' = actions]_vars

\* C3: an Action row with public = False is in the by-actor and by-subject
\* stream of no entity, and is in the by-model stream of its actor's content
\* type.
C3_Visibility ==
    \A r \in actions : r.public = FALSE =>
        /\ \A e \in Entities : /\ r \notin Range(stream_for_actor(e))
                               /\ r \notin Range(stream_for_subject(e))
        /\ r \in Range(stream_for_model(r.actor[1]))

\* C3: a call has just inserted an invisible row whose subject is its target
C3_Witness ==
    /\ Dispatched(last) /\ last.outcome = "created" /\ last.kw.public = FALSE
    /\ \E r \in actions : r.public = FALSE /\ r.subject # r.actor

\* the calls C8 is about, and the row of such a call's candidate
C8_Case(l) == Dispatched(l) /\ "target" \in DOMAIN l.kw
C8_Row(l, r) ==
    /\ r.actor = l.kw.actor /\ r.verb = l.kw.verb /\ r.target = l.kw.target
    /\ r.public = l.kw.public
    /\ r.subject = (IF l.subject = SubjectActor THEN l.kw.actor ELSE l.kw.target)
    /\ ("description" \in DOMAIN l.kw => r.description = l.kw.description)

C2_Expected(w) ==
    {r \in actions : /\ r.public
                     /\ \E f \in BagToSet(follows) : /\ f.user = w
                                                     /\ f.subject = r.subject
                                                     /\ r.timestamp > f.started}

\* C2: the stream of a watcher holds exactly the visible Action rows whose
\* subject the watcher follows and whose timestamp is later than the started
\* time of a Follow row of the watcher for that subject; a row at or before
\* it is not in the stream on account of that Follow.
C2_StreamForUser ==
    \A w \in Users : Range(stream_for_user(w)) = C2_Expected(w)

\* C2: a watcher follows a subject that acted at or before the follow and
\* again after it; the stream holds the later row alone
C2_Witness ==
    \E w \in Users, f \in BagToSet(follows), r1, r2 \in actions :
        /\ f.user = w /\ r1.subject = f.subject /\ r2.subject = f.subject
        /\ r1.public /\ r2.public
        /\ r2.timestamp <= f.started /\ f.started < r1.timestamp
        /\ Range(stream_for_user(w)) = {r1}

\* C4: follow(watcher, subject) completes and leaves a Follow row of
\* (watcher, subject) with started = now, and, unless hide-following is
\* configured, a "started following" Action row with actor = watcher and
\* target = subject.
C4_FollowCreates ==
    last.op = "follow" =>
        /\ last.outcome = "ok"
        /\ \E f \in BagToSet(follows) :
               f.user = last.user /\ f.subject = last.subject /\ f.started = now
        /\ ~(settings.kind = "mapping" /\ settings.ACTIVITY_HIDE_FOLLOWING) =>
               \E r \in actions : /\ r.actor = last.user
                                  /\ r.verb = "started following"
                                  /\ r.target = last.subject

\* C5: unfollow(watcher, subject, send_action) leaves no Follow row of
\* (watcher, subject), leaves the rows of every other pair as they were,
\* leaves the Action table as it was when send_action is false, and inserts
\* nothing but a "stopped following" row of the watcher when it is true.
C5_Unfollow ==
    [][last'.op = "unfollow" =>
        /\ \A f \in BagToSet(follows) \cup BagToSet(follows') :
               IF f.user = last'.user /\ f.subject = last'.subject
               THEN CopiesIn(f, follows') = 0
               ELSE CopiesIn(f, follows') = CopiesIn(f, follows)
        /\ ~last'.send_action => actions' = actions
        /\ \A r \in actions' \ actions :
               /\ last'.send_action
               /\ r.verb = "stopped following"
               /\ r.actor = last'.user /\ r.target = last'.subject
               /\ actions' = actions \cup {r}
        /\ (last'.send_action /\ last'.outcome = "ok") =>
               \E r \in actions' : /\ r.verb = "stopped following"
                                   /\ r.actor = last'.user
                                   /\ r.target = last'.subject
      ]_vars

\* C5: unfollow has just deleted two or more rows of one pair and left the
\* row of another pair
C5_Witness ==
    /\ last.op = "unfollow" /\ last.deleted >= 2 /\ last.outcome = "ok"
    /\ follows # EmptyBag
    /\ \A f \in BagToSet(follows) : f.user # last.user \/ f.subject # last.subject

StartedFollowing(table, u, s) ==
    {r \in table : /\ r.verb = "started following"
                   /\ r.actor = u /\ r.target = s}

Populated(row) == {g \in Range(gfk_fields) : row[g] # None}
Dangling(row) == \E g \in Populated(row) : ~Nullable(g) /\ row[g] \notin Stored
RECURSIVE Kept(_, _)
Kept(rows, i) ==
    IF i > Len(rows) THEN <<>>
    ELSE (IF Dangling(rows[i]) THEN <<>> ELSE <<rows[i]>>) \o Kept(rows, i + 1)

\* C6: run over a result set in which some row references a missing object
\* through a non-nullable field, the resolver of managers.py does not raise,
\* returns the other rows and only them, in their order, each populated
\* reference to a stored object attached to that object.
C6_MissingRowsOmitted ==
    (last.op = "managers" /\ \E i \in DOMAIN qs : Dangling(qs[i])) =>
        /\ last.outcome = "ok"
        /\ [i \in DOMAIN last.items |-> last.items[i].row.id]
             = [i \in DOMAIN Kept(qs, 1) |-> Kept(qs, 1)[i].id]
        /\ \A i \in DOMAIN last.items :
               \A g \in Populated(last.items[i].row) :
                   last.items[i].row[g] \in Stored =>
                       last.items[i].cache[g] = last.items[i].row[g]

\* C6, the part of it that holds: the rows returned are the rows without a
\* dangling non-nullable reference, in order, and nothing is raised.
C6_RowsOmitted ==
    last.op = "managers" =>
        /\ last.outcome = "ok"
        /\ [i \in DOMAIN last.items |-> last.items[i].row.id]
             = [i \in DOMAIN Kept(qs, 1) |-> Kept(qs, 1)[i].id]

\* C10: a row whose nullable reference points at a missing object, and
\* whose non-nullable reference resolves, is in the result of managers.py
\* with that reference set to None; nothing is raised.
C10_NullableMissingCleared ==
    last.op = "managers" =>
        /\ last.outcome = "ok"
        /\ \A i \in DOMAIN qs : \A g \in Populated(qs[i]) :
               (Nullable(g) /\ qs[i][g] \notin Stored /\ ~Dangling(qs[i])) =>
                   \E j \in DOMAIN last.items :
                       /\ last.items[j].row.id = qs[i].id
                       /\ last.items[j].cache[g] = None

\* the number of distinct content types the populated references point at
DistinctTypes == Cardinality({qs[i][g][1] : <<i, g>> \in
                    {sl \in (DOMAIN qs) \X Range(gfk_fields) : qs[sl[1]][sl[2]] # None}})

\* C7: one run of the resolver of gfk.py issues exactly K bulk object
\* queries, and one content type query when K >= 1 and none when K = 0,
\* whatever the number of rows and whether or not referenced objects are
\* missing.
C7_FetchCount ==
    last.op = "gfk" =>
        /\ last.bulk_fetches = DistinctTypes
        /\ last.in_bulk = (IF DistinctTypes >= 1 THEN 1 ELSE 0)
        /\ last.get_for_id = 0

\* C7 as claimed: K bulk queries plus one content type query.
C7_FetchCountAsClaimed ==
    last.op = "gfk" => (last.bulk_fetches = DistinctTypes /\ last.in_bulk + last.get_for_id = 1)

\* C7: a run over two rows that reference two content types, one of the
\* referenced objects missing
C7_Witness ==
    /\ last.op = "gfk" /\ DistinctTypes = 2 /\ Len(qs) = 2
    /\ \E i \in DOMAIN qs : Dangling(qs[i])
    /\ last.bulk_fetches = 2 /\ last.in_bulk = 1
====
